---- MODULE Spec2Model ----
(***************************************************************************)
(* Model of src/checker.py (DataDeltas/autoCMSCheck): PostProcessor.run   *)
(* and the functions it calls, one HTTP request per step.                  *)
(*                                                                         *)
(* Text is a sequence of one-character strings; a file content is the      *)
(* text with its "\n" separators, as the store keeps it.                   *)
(***************************************************************************)
EXTENDS Integers, Sequences, FiniteSets, TLC

(***************************************************************************)
(* Bounds of the model.                                                    *)
(***************************************************************************)
\* longest master file (in lines) a full run starts from
MaxMasterLines == 4
\* longest master file (in lines) batch selection alone is checked on
WideMasterLines == 11
\* runs of main() against the same store, one after the other
MaxRuns == 2
\* nested process_post calls the interpreter allows before RecursionError
MaxDepth == 3
MaxRivalWrites == 1
MaxDelayRequests == 7

(***************************************************************************)
(* Program constants.                                                      *)
(***************************************************************************)
\* stop_after_attempt(3)
MaxAttempts == 3
\* process_batch, line 220: total_time
TotalTime == 120
\* generate_random_delays, line 272: max(5, min(30, ...))
MinDelay == 5
MaxDelay == 30
\* random.randint(5, 8)
MinBatch == 5
MaxBatch == 8
\* return "", None : no version token
NoSha == 0

(***************************************************************************)
(* Text helpers: str.strip, str.split('\n'), '\n'.join, `in`.              *)
(***************************************************************************)
NL == "\n"
Whitespace == {" ", "\t", "\r", NL}
HexChars == {"0", "1", "2", "3", "4", "5", "6", "7", "8", "9",
             "a", "b", "c", "d", "e", "f", "A", "B", "C", "D", "E", "F"}

Range(s) == {s[k] : k \in 1..Len(s)}

Min(a, b) == IF a < b THEN a ELSE b

\* str.strip(): drop leading and trailing whitespace
Strip(s) ==
  LET keep == {k \in 1..Len(s) : s[k] \notin Whitespace}
  IN IF keep = {} THEN <<>>
     ELSE LET lo == CHOOSE k \in keep : \A m \in keep : k <= m
              hi == CHOOSE k \in keep : \A m \in keep : k >= m
          IN SubSeq(s, lo, hi)

\* str.split('\n'): "" splits into one empty line
RECURSIVE Split(_)
Split(content) ==
  LET nls == {k \in 1..Len(content) : content[k] = NL}
  IN IF nls = {} THEN <<content>>
     ELSE LET p == CHOOSE k \in nls : \A m \in nls : k <= m
          IN <<SubSeq(content, 1, p - 1)>> \o Split(SubSeq(content, p + 1, Len(content)))

\* '\n'.join(lines)
RECURSIVE Join(_)
Join(lines) ==
  IF lines = <<>> THEN <<>>
  ELSE IF Len(lines) = 1 THEN lines[1]
  ELSE lines[1] \o <<NL>> \o Join(Tail(lines))

\* sub in s, for strings
Contains(s, sub) ==
  \E k \in 0..(Len(s) - Len(sub)) : SubSeq(s, k + 1, k + Len(sub)) = sub

\* [f(x) for x in xs]
StripAll(lines) == [k \in 1..Len(lines) |-> Strip(lines[k])]

(***************************************************************************)
(* is_valid_id: ^[0-9a-f]{8}-[0-9a-f]{4}-[0-9a-f]{4}-[0-9a-f]{4}-          *)
(* [0-9a-f]{12}$ with re.IGNORECASE, on a stripped line.                   *)
(***************************************************************************)
UuidGroups == <<8, 4, 4, 4, 12>>

RECURSIVE GroupsLen(_)
GroupsLen(groups) ==
  IF groups = <<>> THEN 0
  ELSE groups[1] + (IF Len(groups) > 1 THEN 1 ELSE 0) + GroupsLen(Tail(groups))

\* positions of the hyphens of the pattern
HyphenAt ==
  {GroupsLen(SubSeq(UuidGroups, 1, g)) + 1 : g \in 1..(Len(UuidGroups) - 1)}

is_valid_id(post_id) ==
  /\ Len(post_id) = GroupsLen(UuidGroups)
  /\ \A k \in 1..Len(post_id) :
       IF k \in HyphenAt THEN post_id[k] = "-" ELSE post_id[k] \in HexChars

(***************************************************************************)
(* Parsing of the two store files, batch selection, merge before saving.   *)
(***************************************************************************)
IsIdLine(line) == line # <<>> /\ is_valid_id(line)

\* load_processed_ids: the set built from the downloaded content
ParseProcessed(text) ==
  IF Strip(text) # <<>>
  THEN {Strip(l) : l \in {m \in Range(Split(text)) : IsIdLine(Strip(m))}}
  ELSE {}

\* load_post_ids: the list built from the downloaded content
ParsePostIds(text) ==
  IF Strip(text) # <<>>
  THEN SelectSeq(StripAll(Split(text)), IsIdLine)
  ELSE <<>>

\* a variant of lines 161-163 that forgets the membership test
UnprocessedUnfiltered(all, processed) == all

\* get_unprocessed_batch, lines 158-163: the unprocessed list
Unprocessed(all, processed) ==
  LET Todo(post_id) == post_id \notin processed
  IN SelectSeq(all, Todo)

\* a variant of line 176 that slices one element too many
SelectBatchOffByOne(unprocessed, k) ==
  IF unprocessed = <<>> THEN <<>>
  ELSE SubSeq(unprocessed, 1, Min(k + 1, Len(unprocessed)))

\* get_unprocessed_batch, lines 168-178, with batch_size drawn as k
SelectBatch(unprocessed, k) ==
  IF unprocessed = <<>> THEN <<>>
  ELSE SubSeq(unprocessed, 1, Min(k, Len(unprocessed)))

\* a variant of line 287 that keeps only the lines that are identifiers
ProcessedListValidOnly(text) ==
  IF Strip(text) # <<>> THEN SelectSeq(StripAll(Split(text)), IsIdLine) ELSE <<>>

\* save_processed_ids, line 287
ProcessedList(text) ==
  LET NonEmpty(line) == line # <<>>
  IN IF Strip(text) # <<>> THEN SelectSeq(StripAll(Split(text)), NonEmpty) ELSE <<>>

\* save_processed_ids, lines 290-292
RECURSIVE AppendNew(_, _)
AppendNew(processed_list, post_ids) ==
  IF post_ids = <<>> THEN processed_list
  ELSE AppendNew(IF post_ids[1] \in Range(processed_list) THEN processed_list
                 ELSE Append(processed_list, post_ids[1]),
                 Tail(post_ids))

(***************************************************************************)
(* The inputs the model draws from: store files and endpoint answers.      *)
(***************************************************************************)
Rep(c, n) == [k \in 1..n |-> c]

\* the canonical identifier whose hex digits are all c
Uuid(c) ==
  LET RECURSIVE Build(_)
      Build(groups) ==
        IF groups = <<>> THEN <<>>
        ELSE Rep(c, groups[1]) \o (IF Len(groups) > 1 THEN <<"-">> ELSE <<>>)
             \o Build(Tail(groups))
  IN Build(UuidGroups)

Padded(line) == <<" ">> \o line \o <<" ", "\r">>
Junk == <<"n", "o", "t", "-", "a", "n", "-", "i", "d">>
Blank == <<" ">>

\* every contiguous run of at most n lines of universe, as a file content
Windows(universe, n) ==
  {Join(SubSeq(universe, w[1], w[2])) :
     w \in {x \in (1..Len(universe)) \X (1..Len(universe)) :
              x[2] >= x[1] /\ x[2] - x[1] + 1 <= n}}

MasterUniverse ==
  <<Uuid("a"), Padded(Uuid("b")), Junk, Uuid("a"), Uuid("C")>>
ProcUniverse ==
  <<Uuid("a"), Junk, Uuid("b")>>
WideMasterUniverse ==
  <<Uuid("1"), Uuid("2"), Padded(Uuid("3")), Junk, Uuid("4"), Uuid("5"), Uuid("2"),
    Uuid("6"), Uuid("7"), Uuid("8"), Uuid("9"), Uuid("A"), Uuid("a")>>
WideProcUniverse ==
  <<Uuid("1"), Padded(Uuid("2")), Blank, Uuid("5"), Junk, Uuid("a"), Uuid("9")>>

\* a file of the store: absent, or a content under a version token
Absent == [exists |-> FALSE, content |-> <<>>, sha |-> NoSha]
File(text) == [exists |-> TRUE, content |-> text, sha |-> 1]

MasterFiles == {Absent} \cup {File(t) : t \in Windows(MasterUniverse, MaxMasterLines)}
ProcFiles ==
  {Absent, File(<<>>)} \cup {File(t) : t \in Windows(ProcUniverse, Len(ProcUniverse))}
WideMasterFiles ==
  {Absent} \cup {File(t) : t \in Windows(WideMasterUniverse, WideMasterLines)}
SaveProcUniverse ==
  <<Padded(Uuid("a")), Blank, Junk, Uuid("b")>>
SaveProcFiles ==
  {Absent} \cup {File(t) : t \in Windows(SaveProcUniverse, Len(SaveProcUniverse))}
WideProcFiles ==
  {Absent} \cup {File(t) : t \in Windows(WideProcUniverse, Len(WideProcUniverse))}

LoginPage == <<"/", "A", "c", "c", "o", "u", "n", "t", "/", "L", "o", "g", "i", "n">>
HomePage == <<"/", "H", "o", "m", "e">>
ApiPage == <<"/", "A", "p", "i">>
LoginWord == <<"L", "o", "g", "i", "n">>

\* requests.RequestException raised by the transport: no response at all
TransportError == [exception |-> "RequestException"]
IsException(r) == "exception" \in DOMAIN r

\* no request sent yet, and what is kept of an answer: no body
NoResponse == [status |-> 0]
Seen(r) ==
  IF IsException(r) THEN TransportError
  ELSE IF "url" \in DOMAIN r THEN [status |-> r.status, url |-> r.url]
  ELSE [status |-> r.status]

LoginResponses ==
  {TransportError} \cup [status : {200, 401, 500}, url : {HomePage, LoginPage}]
SubmitResponses ==
  {TransportError} \cup [status : {200, 401, 403, 500}, url : {ApiPage, LoginPage}]

(***************************************************************************)
(* State.  The first group is the program's; the store is the two files    *)
(* of the repository; the last group records what the run has done.        *)
(***************************************************************************)
VARIABLES
  pc,              \* the function the run is in: its next HTTP request or step
  caller,          \* who called login: "run" or "process_post"
  attempt,         \* attempt number of the innermost @retry call
  depth,           \* nested process_post calls for the current identifier
  i,               \* process_batch: 1-based index into the batch
  processed_ids,   \* self.processed_ids
  all_post_ids,    \* self.all_post_ids
  post_ids_batch,  \* run: post_ids_batch
  successful_ids,  \* process_batch: successful_ids
  failed_ids,      \* process_batch: failed_ids
  content,         \* save_processed_ids: content
  sha,             \* save_processed_ids: sha
  all_processed,   \* save_processed_ids: all_processed, the body of the PUT
  exit_code,       \* -1 while the process runs, then its exit code
  exc,             \* the exception main() caught, "none" otherwise
  runs,            \* number of the current run of main()
  postIdsFile,     \* store: postIds.txt
  processedFile,   \* store: processed_so_far.txt
  posted,          \* identifiers POSTed to API_URL in this run
  okIds,           \* identifiers whose submission answered 200 in this run
  okResponses,     \* the responses process_post returned True on, in this run
  logins,          \* login() calls made while handling the current identifier
  last_login,      \* outcome of the last finished login() call
  master_status,   \* status of the answered fetch of postIds.txt, 0 before
  selected,        \* get_unprocessed_batch has returned in this run
  save_arg,        \* the argument of save_processed_ids, <<>> before the call
  puts,            \* PUT requests sent in this run
  putOk,           \* the store applied a PUT of this run
  applied,         \* PUTs of this run the store applied
  savedBefore,     \* identifiers in the contents earlier runs wrote
  savedNow,        \* identifiers in the content this run wrote
  start_done,      \* at the start of the run the store had nothing left to do
  authenticated,   \* a login() call of this run has returned True
  read,            \* a GET for a store file was sent in this run
  load_sha,        \* the sha the store served to load_processed_ids
  get_sha,         \* the sha the store served to the last read of the processed file
  put_sha,         \* the sha the last PUT request carried
  raced,           \* another run wrote between this run's save read and its write
  rival_ids,       \* identifiers another run has written to the processed file
  rival_writes,    \* writes of other runs so far
  resp,            \* the answer to the last HTTP request of this run
  sleeps,          \* time.sleep calls of process_batch in this run
  dpc,             \* generate_random_delays: where the call is
  num_requests,    \* generate_random_delays: num_requests
  weights,         \* generate_random_delays: weights, in tenths
  final_delays     \* generate_random_delays: final_delays, as fractions

progVars == <<processed_ids, all_post_ids, post_ids_batch>>
batchVars == <<i, successful_ids, failed_ids>>
saveVars == <<content, sha, all_processed>>
storeVars == <<postIdsFile, processedFile>>
putVars == <<puts, putOk, savedNow, put_sha, applied>>
postVars == <<posted, okIds, okResponses>>
loginHist == <<authenticated>>
readHist == <<read, load_sha, get_sha>>
rivalVars == <<raced, rival_ids, rival_writes>>
respHist == <<resp>>
sleepHist == <<sleeps>>
delayVars == <<dpc, num_requests, weights, final_delays>>
runVars == <<pc, caller, attempt, depth, progVars, batchVars, saveVars, exit_code, exc,
          runs, storeVars, postVars, logins, last_login, master_status, selected,
          save_arg, putVars, savedBefore, start_done, loginHist, readHist, rivalVars, respHist, sleepHist>>
vars == <<runVars, delayVars>>

\* the stripped lines of a file content that are identifiers, in file order
ValidLines(text) == SelectSeq(StripAll(Split(text)), IsIdLine)

\* every identifier of the master file is a line of the processed file
NothingLeft(master, proc) ==
  Range(ValidLines(master.content)) \subseteq Range(ValidLines(proc.content))

\* generate_random_delays has not been called
NoDelays == dpc = "idle" /\ num_requests = 0 /\ weights = <<>> /\ final_delays = <<>>

\* PostProcessor() constructed, main() about to call run()
Fresh ==
  /\ pc = "login" /\ caller = "run" /\ attempt = 1 /\ depth = 0 /\ i = 0
  /\ processed_ids = {} /\ all_post_ids = <<>> /\ post_ids_batch = <<>>
  /\ successful_ids = <<>> /\ failed_ids = <<>>
  /\ content = <<>> /\ sha = NoSha /\ all_processed = <<>>
  /\ exit_code = -1 /\ exc = "none"
  /\ posted = {} /\ okIds = {} /\ okResponses = {}
  /\ logins = 0 /\ last_login = "none" /\ master_status = 0 /\ selected = FALSE
  /\ save_arg = <<>> /\ puts = 0 /\ putOk = FALSE /\ savedNow = {}
  /\ authenticated = FALSE /\ read = FALSE
  /\ load_sha = NoSha /\ get_sha = NoSha /\ put_sha = NoSha /\ raced = FALSE
  /\ resp = NoResponse /\ sleeps = 0 /\ applied = 0

Init ==
  /\ Fresh
  /\ runs = 1 /\ savedBefore = {}
  /\ rival_ids = {} /\ rival_writes = 0
  /\ NoDelays
  /\ postIdsFile \in MasterFiles
  /\ processedFile \in ProcFiles
  /\ start_done = NothingLeft(postIdsFile, processedFile)

InitWide ==
  /\ Fresh
  /\ runs = 1 /\ savedBefore = {}
  /\ rival_ids = {} /\ rival_writes = 0
  /\ NoDelays
  /\ postIdsFile \in WideMasterFiles
  /\ processedFile \in WideProcFiles
  /\ start_done = NothingLeft(postIdsFile, processedFile)

(***************************************************************************)
(* Control: @retry, exceptions reaching main(), run()'s return.            *)
(***************************************************************************)
\* main: exit(1) unless run() returned True
ExitCode(result) == IF result THEN 0 ELSE 1

\* a variant of lines 331-337 that reports success whatever failed
RunResultIgnoringFailures(failed) == TRUE

\* run, lines 331-337
RunResult(failed) == failed = <<>>

\* a variant of stop_after_attempt(3) that allows one attempt more
ExhaustedLate(n) == n > MaxAttempts

\* stop_after_attempt(3)
Exhausted(n) == n >= MaxAttempts

Goto(p) == pc' = p /\ attempt' = 1 /\ UNCHANGED <<exit_code, exc>>
Again == attempt' = attempt + 1 /\ UNCHANGED <<pc, exit_code, exc>>
Raise(e) == pc' = "done" /\ exit_code' = 1 /\ exc' = e /\ UNCHANGED attempt
Return(result) ==
  pc' = "done" /\ exit_code' = ExitCode(result) /\ exc' = "none" /\ UNCHANGED attempt

\* a variant of @retry without stop: every failure starts the attempts anew
RetryForever == attempt' = 1 /\ UNCHANGED <<pc, exit_code, exc>>

\* @retry around a call that raised a RequestException or HTTPError
RetryOrRaise == IF Exhausted(attempt) THEN Raise("RetryError") ELSE Again

(***************************************************************************)
(* process_batch and run around one call of process_post.                  *)
(***************************************************************************)
\* process_batch, lines 231-236: the list after one result
Recorded(ids, post_id, hit) == IF hit THEN Append(ids, post_id) ELSE ids

\* a variant of line 324 that saves whatever the batch gave
ShouldSaveAlways(ok_ids) == TRUE

\* run, line 324: if successful_ids
ShouldSave(ok_ids) == ok_ids # <<>>

\* run, lines 324-337, once process_batch has returned
AfterBatch(ok_ids, bad_ids) ==
  IF ShouldSave(ok_ids)
  THEN \* save_processed_ids(successful_ids): line 283, then its download
       /\ processed_ids' = processed_ids \cup Range(ok_ids)
       /\ save_arg' = ok_ids
       /\ Goto("save_processed_ids")
  ELSE /\ UNCHANGED <<processed_ids, save_arg>>
       /\ Return(RunResult(bad_ids))

\* a variant of line 239 that stops one identifier early
SleepBeforeNextOffByOne(idx, n) == idx < n - 1

\* line 239, for the 1-based index idx: another identifier follows
SleepBeforeNext(idx, n) == idx < n

\* process_post has returned hit to process_batch, lines 231-250
FinishPost(hit) ==
  LET ok_ids == Recorded(successful_ids, post_ids_batch[i], hit)
      bad_ids == Recorded(failed_ids, post_ids_batch[i], ~hit)
  IN /\ successful_ids' = ok_ids
     /\ failed_ids' = bad_ids
     /\ IF SleepBeforeNext(i, Len(post_ids_batch))
        THEN Goto("sleep") /\ UNCHANGED <<processed_ids, save_arg>>
        ELSE AfterBatch(ok_ids, bad_ids)

(***************************************************************************)
(* login, lines 46-61: one POST to LOGIN_URL per step.                     *)
(***************************************************************************)
\* a variant of lines 56-61 that raises when the answer is the login page
LoginRaisesOnLoginPage(r) ==
  IsException(r) \/ r.status >= 400 \/ Contains(r.url, LoginWord)

\* the transport raised, or raise_for_status() did
LoginRaises(r) == IsException(r) \/ r.status >= 400

\* a variant of line 57 that takes every answer for a successful login
LoginAcceptedAlways(r) == TRUE

\* "Login" not in response.url
LoginAccepted(r) == ~Contains(r.url, LoginWord)

login ==
  /\ pc = "login"
  /\ \E r \in LoginResponses :
     /\ resp' = Seen(r)
     /\ authenticated' =
          (\/ authenticated
           \/ (~IsException(r) /\ r.status < 400 /\ ~Contains(r.url, LoginWord)))
     /\ IF LoginRaises(r)
       THEN /\ RetryOrRaise
            /\ last_login' = IF Exhausted(attempt) THEN "raised" ELSE last_login
            /\ UNCHANGED <<depth, processed_ids, save_arg, successful_ids, failed_ids>>
       ELSE IF LoginAccepted(r)
       THEN /\ last_login' = "ok"
            /\ UNCHANGED <<processed_ids, save_arg, successful_ids, failed_ids>>
            /\ IF caller = "run"
               THEN Goto("load_processed_ids") /\ UNCHANGED depth
               ELSE \* line 204: return self.process_post(post_id)
                    IF depth < MaxDepth
                    THEN Goto("process_post") /\ depth' = depth + 1
                    ELSE Raise("RecursionError") /\ UNCHANGED depth
       ELSE /\ last_login' = "rejected"
            /\ UNCHANGED depth
            /\ IF caller = "run"
               THEN /\ Return(FALSE)
                    /\ UNCHANGED <<processed_ids, save_arg, successful_ids, failed_ids>>
               ELSE FinishPost(FALSE)
  /\ UNCHANGED <<caller, i, all_post_ids, post_ids_batch, saveVars, runs, storeVars,
                 postVars, logins, master_status, selected, putVars, savedBefore, start_done,
                 readHist,
                 rivalVars,
                 sleepHist,
                 delayVars>>

(***************************************************************************)
(* download_file_from_github, lines 63-90, and its three callers.          *)
(***************************************************************************)
\* what the store answers when it answers
Served(file) ==
  IF file.exists
  THEN [status |-> 200, content |-> file.content, sha |-> file.sha]
  ELSE [status |-> 404]

DownloadResponses(file) ==
  {TransportError, [status |-> 429], [status |-> 500], Served(file)}

\* lines 85-90, or the transport raised
DownloadRaises(r) == IsException(r) \/ r.status \notin {200, 404}

\* lines 76-84: the pair (file_content, sha) returned
Downloaded(r) == IF r.status = 200 THEN <<r.content, r.sha>> ELSE <<<<>>, NoSha>>

load_processed_ids ==
  /\ pc = "load_processed_ids"
  /\ read' = TRUE
  /\ \E r \in DownloadResponses(processedFile) :
       /\ resp' = Seen(r)
       /\ IF DownloadRaises(r)
          THEN RetryOrRaise /\ UNCHANGED <<processed_ids, load_sha, get_sha>>
          ELSE /\ processed_ids' = ParseProcessed(Downloaded(r)[1])
               /\ load_sha' = processedFile.sha
               /\ get_sha' = processedFile.sha
               /\ Goto("load_post_ids")
  /\ UNCHANGED <<caller, depth, all_post_ids, post_ids_batch, batchVars, saveVars, runs,
                 storeVars, postVars, logins, last_login, master_status, selected,
                 save_arg, putVars, savedBefore, start_done,
                 loginHist,
                 rivalVars,
                 sleepHist,
                 delayVars>>

load_post_ids ==
  /\ pc = "load_post_ids"
  /\ read' = TRUE
  /\ UNCHANGED <<load_sha, get_sha>>
  /\ \E r \in DownloadResponses(postIdsFile) :
       /\ resp' = Seen(r)
       /\ IF DownloadRaises(r)
          THEN RetryOrRaise /\ UNCHANGED <<all_post_ids, master_status>>
          ELSE /\ all_post_ids' = ParsePostIds(Downloaded(r)[1])
               /\ master_status' = r.status
               /\ Goto("get_unprocessed_batch")
  /\ UNCHANGED <<caller, depth, processed_ids, post_ids_batch, batchVars, saveVars, runs,
                 storeVars, postVars, logins, last_login, selected, save_arg, putVars,
                 savedBefore, start_done,
                 loginHist,
                 rivalVars,
                 sleepHist,
                 delayVars>>

\* lines 156-178 and run, lines 313-321
get_unprocessed_batch ==
  /\ pc = "get_unprocessed_batch"
  /\ \E k \in MinBatch..MaxBatch :
       LET batch == SelectBatch(Unprocessed(all_post_ids, processed_ids), k)
       IN /\ post_ids_batch' = batch
          /\ selected' = TRUE
          /\ IF batch = <<>>
             THEN Return(TRUE) /\ UNCHANGED <<i, depth>>
             ELSE Goto("process_post") /\ i' = 1 /\ depth' = 1
  /\ UNCHANGED <<caller, processed_ids, all_post_ids, successful_ids, failed_ids,
                 saveVars, runs, storeVars, postVars, logins, last_login, master_status,
                 save_arg, putVars, savedBefore, start_done,
                 loginHist, readHist,
                 rivalVars,
                 respHist,
                 sleepHist,
                 delayVars>>

(***************************************************************************)
(* process_post, lines 180-210: one POST to API_URL per step.              *)
(***************************************************************************)
\* a variant of line 198 that takes every status below 500 for a success
SucceededBelow500(r) == r.status < 500

\* line 198
Succeeded(r) == r.status = 200

\* line 201
SessionExpired(r) == r.status \in {401, 403} \/ Contains(r.url, LoginWord)

process_post ==
  /\ pc = "process_post"
  /\ \E r \in SubmitResponses :
       /\ resp' = Seen(r)
       /\ posted' = posted \cup {post_ids_batch[i]}
       /\ okIds' = IF ~IsException(r) /\ r.status = 200
                   THEN okIds \cup {post_ids_batch[i]} ELSE okIds
       /\ IF IsException(r)
          THEN /\ RetryOrRaise
               /\ UNCHANGED <<caller, logins, okResponses, processed_ids, save_arg,
                              successful_ids, failed_ids>>
          ELSE IF Succeeded(r)
          THEN /\ okResponses' = okResponses \cup {r}
               /\ FinishPost(TRUE)
               /\ UNCHANGED <<caller, logins>>
          ELSE IF SessionExpired(r)
          THEN \* line 203: self.login()
               /\ Goto("login")
               /\ caller' = "process_post"
               /\ logins' = logins + 1
               /\ UNCHANGED <<okResponses, processed_ids, save_arg, successful_ids,
                              failed_ids>>
          ELSE /\ FinishPost(FALSE)
               /\ UNCHANGED <<caller, logins, okResponses>>
  /\ UNCHANGED <<depth, i, all_post_ids, post_ids_batch, saveVars, runs, storeVars,
                 last_login, master_status, selected, putVars, savedBefore, start_done,
                 loginHist, readHist,
                 rivalVars,
                 sleepHist,
                 delayVars>>

\* process_batch, lines 239-242, then the next iteration of the loop
sleep ==
  /\ pc = "sleep"
  /\ sleeps' = sleeps + 1
  /\ i' = i + 1
  /\ depth' = 1
  /\ logins' = 0
  /\ last_login' = "none"
  /\ Goto("process_post")
  /\ UNCHANGED <<caller, progVars, successful_ids, failed_ids, saveVars, runs, storeVars,
                 postVars, master_status, selected, save_arg, putVars, savedBefore, start_done,
                 loginHist, readHist,
                 rivalVars,
                 respHist,
                 delayVars>>

(***************************************************************************)
(* save_processed_ids, lines 280-296, and upload_file_to_github, 92-121.   *)
(***************************************************************************)
\* a variant of line 296 that uploads without a sha
SaveTokenNone(r) == NoSha

\* lines 286 and 296: the sha of the download is the sha of the upload
SaveToken(r) == Downloaded(r)[2]

save_processed_ids ==
  /\ pc = "save_processed_ids"
  /\ read' = TRUE
  /\ UNCHANGED load_sha
  /\ \E r \in DownloadResponses(processedFile) :
       /\ resp' = Seen(r)
       /\ IF DownloadRaises(r)
          THEN RetryOrRaise /\ UNCHANGED <<saveVars, get_sha>>
          ELSE /\ content' = Downloaded(r)[1]
               /\ sha' = SaveToken(r)
               /\ get_sha' = processedFile.sha
               /\ all_processed' = Join(AppendNew(ProcessedList(Downloaded(r)[1]), save_arg))
               /\ Goto("upload_file_to_github")
  /\ UNCHANGED <<caller, depth, progVars, batchVars, runs, storeVars, postVars, logins,
                 last_login, master_status, selected, save_arg, putVars, savedBefore, start_done,
                 loginHist,
                 rivalVars,
                 sleepHist,
                 delayVars>>

\* the store's answer to PUT body under token, and the file afterwards
StorePut(file, body, token) ==
  IF ~file.exists /\ token = NoSha
  THEN [status |-> 201, file |-> [exists |-> TRUE, content |-> body, sha |-> 1]]
  ELSE IF file.exists /\ token = file.sha
  THEN [status |-> 200, file |-> [exists |-> TRUE, content |-> body, sha |-> file.sha + 1]]
  ELSE [status |-> 409, file |-> file]

\* the answers to one PUT request: served, served with the answer lost on the
\* way back, refused for load, or never delivered
UploadResponses(file, body, token) ==
  LET put == StorePut(file, body, token)
  IN {put, [exception |-> "RequestException", file |-> put.file],
      [status |-> 429, file |-> file], [status |-> 500, file |-> file],
      [exception |-> "RequestException", file |-> file]}

\* lines 116-121, or the transport raised
UploadRaises(r) == IsException(r) \/ r.status \notin {200, 201}

\* run, line 325: if self.save_processed_ids(successful_ids)
SaveOk(new_sha) == new_sha # NoSha

upload_file_to_github ==
  /\ pc = "upload_file_to_github"
  /\ puts' = puts + 1
  /\ put_sha' = sha
  /\ \E r \in UploadResponses(processedFile, all_processed, sha) :
       /\ resp' = Seen(r)
       /\ processedFile' = r.file
       /\ putOk' = (putOk \/ r.file # processedFile)
       /\ applied' = IF r.file # processedFile THEN applied + 1 ELSE applied
       /\ savedNow' = IF r.file # processedFile
                      THEN ParseProcessed(r.file.content) ELSE savedNow
       /\ IF UploadRaises(r)
          THEN RetryOrRaise
          ELSE IF SaveOk(r.file.sha)
          THEN Return(RunResult(failed_ids))
          ELSE Return(FALSE)
  /\ UNCHANGED <<caller, depth, progVars, batchVars, saveVars, runs, postIdsFile,
                 postVars, logins, last_login, master_status, selected, save_arg,
                 savedBefore, start_done,
                 loginHist, readHist,
                 rivalVars,
                 sleepHist,
                 delayVars>>

(***************************************************************************)
(* main, lines 339-347: the next scheduled run, once this one has exited.  *)
(***************************************************************************)
main ==
  /\ pc = "done"
  /\ runs < MaxRuns
  /\ runs' = runs + 1
  /\ savedBefore' = savedBefore \cup savedNow
  /\ pc' = "login" /\ caller' = "run" /\ attempt' = 1 /\ depth' = 0 /\ i' = 0
  /\ processed_ids' = {} /\ all_post_ids' = <<>> /\ post_ids_batch' = <<>>
  /\ successful_ids' = <<>> /\ failed_ids' = <<>>
  /\ content' = <<>> /\ sha' = NoSha /\ all_processed' = <<>>
  /\ exit_code' = -1 /\ exc' = "none"
  /\ posted' = {} /\ okIds' = {} /\ okResponses' = {}
  /\ logins' = 0 /\ last_login' = "none" /\ master_status' = 0 /\ selected' = FALSE
  /\ save_arg' = <<>> /\ puts' = 0 /\ putOk' = FALSE /\ savedNow' = {}
  /\ authenticated' = FALSE /\ read' = FALSE
  /\ load_sha' = NoSha /\ get_sha' = NoSha /\ put_sha' = NoSha /\ raced' = FALSE
  /\ resp' = NoResponse /\ sleeps' = 0 /\ applied' = 0
  /\ start_done' = NothingLeft(postIdsFile, processedFile)
  /\ UNCHANGED <<storeVars, rival_ids, rival_writes, delayVars>>

\* the steps of a run: each HTTP request returns or raises within its
\* timeout, each sleep ends, and the single thread then takes its next step
Step ==
  \/ login
  \/ load_processed_ids
  \/ load_post_ids
  \/ get_unprocessed_batch
  \/ process_post
  \/ sleep
  \/ save_processed_ids
  \/ upload_file_to_github

Next ==
  \/ login
  \/ load_processed_ids
  \/ load_post_ids
  \/ get_unprocessed_batch
  \/ process_post
  \/ sleep
  \/ save_processed_ids
  \/ upload_file_to_github
  \/ main

Spec == Init /\ [][Next]_vars

\* one run, which keeps taking steps until it is over
SpecLive == Init /\ [][Step]_vars /\ WF_vars(Step)

\* full runs over processed files with padded, blank and invalid lines
InitSave ==
  /\ Fresh
  /\ runs = 1 /\ savedBefore = {}
  /\ rival_ids = {} /\ rival_writes = 0
  /\ NoDelays
  /\ postIdsFile \in MasterFiles
  /\ processedFile \in SaveProcFiles
  /\ start_done = NothingLeft(postIdsFile, processedFile)

SpecSave == InitSave /\ [][Next]_vars

(***************************************************************************)
(* Another run of the same program against the same store: its             *)
(* save_processed_ids, lines 280-296, read and write in one step, landing  *)
(* after this run's initial load, before its save or between the read and  *)
(* the write of its save.                                                  *)
(***************************************************************************)
RivalPoints == {"load_post_ids", "save_processed_ids", "upload_file_to_github"}

rival_save ==
  /\ pc \in RivalPoints
  /\ rival_writes < MaxRivalWrites
  /\ \E id \in Range(ValidLines(postIdsFile.content)) \ Range(ProcessedList(processedFile.content)) :
       /\ processedFile' =
            StorePut(processedFile,
                     Join(AppendNew(ProcessedList(processedFile.content), <<id>>)),
                     processedFile.sha).file
       /\ rival_ids' = rival_ids \cup {id}
  /\ rival_writes' = rival_writes + 1
  /\ raced' = (raced \/ (pc = "upload_file_to_github" /\ ~putOk))
  /\ UNCHANGED <<pc, caller, attempt, depth, progVars, batchVars, saveVars, exit_code, exc,
                 runs, postIdsFile, postVars, logins, last_login, master_status, selected,
                 save_arg, putVars, savedBefore, start_done, loginHist, readHist,
                 respHist,
                 sleepHist,
                 delayVars>>

\* one run, and the other run's writes
NextRace ==
  \/ Step
  \/ rival_save

\* the processed file is absent, so that the first write creates it, or holds
\* one identifier
RaceProcFiles == {Absent, File(Uuid("a"))}

InitRace ==
  /\ Fresh
  /\ runs = 1 /\ savedBefore = {}
  /\ rival_ids = {} /\ rival_writes = 0
  /\ NoDelays
  /\ postIdsFile \in MasterFiles
  /\ processedFile \in RaceProcFiles
  /\ start_done = NothingLeft(postIdsFile, processedFile)

SpecRace == InitRace /\ [][NextRace]_vars

\* run up to the selection of the batch, from the wider set of store files
NextSelect ==
  \/ login
  \/ load_processed_ids
  \/ load_post_ids
  \/ get_unprocessed_batch

SpecSelect == InitWide /\ [][NextSelect]_vars

(***************************************************************************)
(* generate_random_delays, lines 252-278, on its own: the random draws are *)
(* taken from the ends and the middle of their ranges, in tenths, and the  *)
(* delays are exact fractions <<numerator, denominator>>.                  *)
(***************************************************************************)
WeightTenths == {5, 10, 20}
FactorTenths == {8, 12}

Less(a, b) == a[1] * b[2] < b[1] * a[2]

\* Python's min and max of two numbers: the first unless the second beats it
PyMin(a, b) == IF Less(b, a) THEN b ELSE a
PyMax(a, b) == IF Less(a, b) THEN b ELSE a

RECURSIVE Sum(_)
Sum(seq) == IF seq = <<>> THEN 0 ELSE seq[1] + Sum(Tail(seq))

\* line 265: (w / weight_sum) * total_time
ScaledDelay(w, weight_sum, total_time) == <<w * total_time, weight_sum>>

\* line 271: delay * random.uniform(0.8, 1.2), the factor f in tenths
Randomized(delay, f) == <<delay[1] * f, delay[2] * 10>>

\* a variant of line 272 without the clamp
FinalDelayUnclamped(randomized_delay) == randomized_delay

\* line 272
FinalDelay(randomized_delay) ==
  PyMax(<<MinDelay, 1>>, PyMin(<<MaxDelay, 1>>, randomized_delay))

\* lines 254-258
generate_random_delays ==
  /\ dpc = "called"
  /\ dpc' = IF num_requests <= 1 THEN "returned" ELSE "weights"
  /\ UNCHANGED <<num_requests, weights, final_delays, runVars>>

\* line 261, one draw per step
draw_weight ==
  /\ dpc = "weights"
  /\ \E w \in WeightTenths : weights' = Append(weights, w)
  /\ dpc' = IF Len(weights) + 1 = num_requests - 1 THEN "delays" ELSE "weights"
  /\ UNCHANGED <<num_requests, final_delays, runVars>>

\* lines 262-273, one iteration of the loop per step, then the return
randomize_delay ==
  /\ dpc = "delays"
  /\ LET delay == ScaledDelay(weights[Len(final_delays) + 1], Sum(weights), TotalTime)
     IN \E f \in FactorTenths :
          final_delays' = Append(final_delays, FinalDelay(Randomized(delay, f)))
  /\ dpc' = IF Len(final_delays) + 1 = Len(weights) THEN "returned" ELSE "delays"
  /\ UNCHANGED <<num_requests, weights, runVars>>

InitDelays ==
  /\ Fresh
  /\ runs = 1 /\ savedBefore = {}
  /\ rival_ids = {} /\ rival_writes = 0
  /\ postIdsFile = Absent /\ processedFile = Absent
  /\ start_done = NothingLeft(postIdsFile, processedFile)
  /\ dpc = "called" /\ num_requests \in 0..MaxDelayRequests
  /\ weights = <<>> /\ final_delays = <<>>

NextDelays ==
  \/ generate_random_delays
  \/ draw_weight
  \/ randomize_delay

SpecDelays == InitDelays /\ [][NextDelays]_vars

TypeOK ==
  /\ pc \in {"login", "load_processed_ids", "load_post_ids", "get_unprocessed_batch",
              "process_post", "sleep", "save_processed_ids", "upload_file_to_github",
              "done"}
  /\ attempt \in 1..MaxAttempts
  /\ depth \in 0..MaxDepth
  /\ exit_code \in {-1, 0, 1}
  /\ (pc = "done") = (exit_code # -1)
  /\ runs \in 1..MaxRuns

(***************************************************************************)
(* Properties.                                                             *)
(***************************************************************************)
\* the identifiers the PUT body has beyond the lines read just before it
Added == Range(Split(all_processed)) \ Range(StripAll(Split(content)))

\* C1: every identifier a run adds to the content it writes to
\* processed_so_far.txt is an identifier of the selected batch that was
\* submitted in that run and answered 200 in that run; what the store holds
\* after an applied PUT is that content.
C1_OnlyConfirmedSuccessesAdded ==
  /\ puts > 0 =>
       \A id \in Added :
         /\ id \in Range(post_ids_batch)
         /\ id \in posted
         /\ id \in okIds
  /\ putOk => processedFile.content = all_processed

\* C1 witness: a run wrote a content that adds one identifier to a non-empty
\* file while another identifier of its batch had failed
C1_Witness ==
  /\ putOk
  /\ failed_ids # <<>>
  /\ Added # {}
  /\ ProcessedList(content) # <<>>
  /\ \E id \in Range(failed_ids) : id \notin Range(Split(processedFile.content))

\* C2: over the handling of one identifier login is called at most once and
\* process_post at most twice.
C2_OneReauthPerIdentifier == logins <= 1 /\ depth <= 2

\* C3: when the fetch of postIds.txt answers not-found the run ends with exit
\* code 1, nothing submitted and no PUT sent.
C3_MissingMasterIsFatal ==
  (pc = "done" /\ master_status = 404) =>
    (exit_code = 1 /\ posted = {} /\ puts = 0)

\* C4: when the run ends, every identifier whose submission answered 200 has
\* been handed to save_processed_ids (the weakest reading of "a save attempt").
C4_SuccessesReachSave ==
  pc = "done" => \A id \in okIds : id \in Range(save_arg)

\* C5: a re-authentication that fails, by rejection or by exhausting its
\* attempts, records the identifier as failed and lets the batch go on: no
\* exception ends the run at that step.
C5_ReauthFailureSkipsToNext ==
  [][(/\ pc = "login"
      /\ caller = "process_post"
      /\ pc' # "login"
      /\ last_login' \in {"rejected", "raised"})
     => (/\ failed_ids' = Append(failed_ids, post_ids_batch[i])
         /\ exc' = "none"
         /\ pc' \in {"sleep", "save_processed_ids", "done"})]_vars

\* the batch was selected and had nothing in it
UnprocessedWasEmpty == selected /\ post_ids_batch = <<>>

\* every identifier of the batch answered 200 and the store applied the PUT
AllSucceededAndSaved ==
  /\ selected
  /\ post_ids_batch # <<>>
  /\ successful_ids = post_ids_batch
  /\ Range(post_ids_batch) \subseteq okIds
  /\ putOk

\* C6: a run that has ended has exit code 0 only if the unprocessed sequence
\* was empty or every identifier of the batch succeeded and the write was
\* applied; otherwise, and whenever an identifier was recorded as failed, an
\* exception reached main, the login was rejected or the write was not
\* applied, the exit code is 1.
C6_ExitZeroOnlyOnFullSuccess ==
  pc = "done" =>
    /\ exit_code = 0 => (UnprocessedWasEmpty \/ AllSucceededAndSaved)
    /\ ~(UnprocessedWasEmpty \/ AllSucceededAndSaved) => exit_code = 1
    /\ (\/ failed_ids # <<>>
        \/ exc # "none"
        \/ ~selected
        \/ (successful_ids # <<>> /\ ~putOk)) => exit_code = 1

\* C6 witness: a run that saved one identifier and failed another has ended
C6_Witness ==
  /\ pc = "done"
  /\ putOk
  /\ failed_ids # <<>>
  /\ successful_ids # <<>>
  /\ exit_code = 1

\* C7: no response whose final URL contains "Login" makes process_post
\* return True.
C7_LoginUrlNeverSuccess ==
  \A r \in okResponses : ~Contains(r.url, LoginWord)

\* U of the store: the identifier lines of the master file, in file order,
\* without those that are identifier lines of the processed file
StoreUnprocessed ==
  LET done == Range(ValidLines(processedFile.content))
      Left(line) == line \notin done
  IN SelectSeq(ValidLines(postIdsFile.content), Left)

\* C8: the selected batch is the first min(k, |U|) elements of U for some k
\* in 5..8; no line that fails validation is in it.
C8_BatchIsPrefixOfUnprocessed ==
  selected =>
    /\ \E k \in 5..8 :
         post_ids_batch = SubSeq(StoreUnprocessed, 1, Min(k, Len(StoreUnprocessed)))
    /\ \A p \in 1..Len(post_ids_batch) : is_valid_id(post_ids_batch[p])

\* C8 witness: a batch of 6 cut from more than 8 unprocessed identifiers, with
\* an invalid line in the master file and processed identifiers removed
C8_Witness ==
  /\ selected
  /\ Len(post_ids_batch) = 6
  /\ Len(StoreUnprocessed) > 8
  /\ Len(StoreUnprocessed) < Len(ValidLines(postIdsFile.content))
  /\ Len(ValidLines(postIdsFile.content)) < Len(Split(postIdsFile.content))
  /\ Len(ValidLines(processedFile.content)) < Len(Split(processedFile.content))

\* C9: no identifier appears twice in the selected batch.
C9_NoDuplicateInBatch ==
  \A p, q \in 1..Len(post_ids_batch) :
    post_ids_batch[p] = post_ids_batch[q] => p = q

\* C10 as stated: no run submits an identifier that an earlier run saved, and
\* a run started with nothing left to do submits nothing, sends no PUT and
\* ends with exit code 0.
C10_RerunIsSuccessfulNoOp ==
  /\ posted \cap savedBefore = {}
  /\ start_done => (posted = {} /\ puts = 0 /\ (pc = "done" => exit_code = 0))

\* C10 amended: the same, except that the run started with nothing left to do
\* ends with exit code 0 exactly when its login and both of its store reads
\* succeeded, and with exit code 1 otherwise.
C10_RerunIsNoOp ==
  /\ posted \cap savedBefore = {}
  /\ start_done =>
       /\ posted = {}
       /\ puts = 0
       /\ ~putOk
       /\ pc = "done" => (exit_code = 0 <=> selected)

\* C10 witness: the run after one that saved identifiers found nothing left
\* to do and ended with exit code 0
C10_Witness ==
  /\ runs > 1
  /\ savedBefore # {}
  /\ start_done
  /\ selected
  /\ pc = "done"
  /\ exit_code = 0

\* C11: nothing is read from the store, submitted or written before a login
\* of the run has returned True; a run whose initial login did not return
\* True ends with exit code 1 having done none of these.
C11_LoginComesFirst ==
  /\ (read \/ posted # {} \/ puts > 0 \/ selected) => authenticated
  /\ (pc = "done" /\ ~authenticated) =>
       (exit_code = 1 /\ ~read /\ posted = {} /\ puts = 0 /\ ~putOk)

\* C11 witness: the initial login was rejected and the run has ended
C11_Witness ==
  /\ pc = "done"
  /\ ~authenticated
  /\ last_login = "rejected"
  /\ exit_code = 1
  /\ ~start_done

\* C12: a failure to load the processed set never ends the run: no step of
\* load_processed_ids ends the run, and none yields exit code 1.
C12_LoadFailureNotFatal ==
  [][pc = "load_processed_ids" => (pc' # "done" /\ exit_code' # 1)]_vars

\* C13: every PUT carries the sha served by the read of the processed file
\* made just before it in save_processed_ids; when another run's write lands
\* between that read and this run's write, the store applies no PUT of this
\* run and the run ends with exit code 1; and every identifier another run
\* wrote is still a line of the processed file.
C13_StaleWriteRejected ==
  /\ puts > 0 => put_sha = get_sha
  /\ raced => /\ ~putOk
              /\ pc = "done" => (exit_code = 1 /\ exc = "RetryError")
  /\ rival_ids \subseteq Range(ProcessedList(processedFile.content))

\* C13 witness: another run wrote between the read and the write, all three
\* PUT attempts were sent and the run has ended
C13_Witness ==
  /\ raced
  /\ pc = "done"
  /\ puts = MaxAttempts
  /\ rival_ids # {}

\* the position of the first occurrence of x in seq
FirstAt(seq, x) == CHOOSE k \in 1..Len(seq) : seq[k] = x /\ \A j \in 1..(k - 1) : seq[j] # x

\* written is kept followed by the members of new that are not in kept, each
\* once, in the order of their first occurrence in new
ExtendsBy(written, kept, new) ==
  /\ Len(written) >= Len(kept)
  /\ SubSeq(written, 1, Len(kept)) = kept
  /\ LET added == SubSeq(written, Len(kept) + 1, Len(written))
     IN /\ Range(added) = Range(new) \ Range(kept)
        /\ \A a, b \in 1..Len(added) :
             a < b => FirstAt(new, added[a]) < FirstAt(new, added[b])

\* a body is being written, or has been written, by the save of this run
Writing == pc = "upload_file_to_github" \/ puts > 0

\* C14 as stated: the body written is the non-empty lines of the content read
\* just before, as they were read and in their order, followed by the newly
\* succeeded identifiers not already present, once each in batch order.
C14_WriteKeepsEveryLine ==
  Writing =>
    LET NonEmpty(line) == line # <<>>
    IN ExtendsBy(Split(all_processed), SelectSeq(Split(content), NonEmpty), save_arg)

\* C14 amended: the body written is the lines of the content read just before
\* that have a non-whitespace character, each stripped of surrounding
\* whitespace and in their order (invalid lines included), followed by the
\* newly succeeded identifiers not among them, once each in batch order; the
\* content read is the stored one and an applied PUT stores exactly the body.
C14_WriteKeepsStrippedLines ==
  Writing =>
    LET NonBlank(line) == Strip(line) # <<>>
    IN /\ ExtendsBy(Split(all_processed),
                    StripAll(SelectSeq(Split(content), NonBlank)), save_arg)
       /\ save_arg = successful_ids
       /\ IF putOk THEN processedFile.content = all_processed
          ELSE processedFile.content = content

\* C14 witness: a PUT was applied over a file that held an invalid line and a
\* whitespace-only one, for a batch in which an identifier succeeded twice
C14_Witness ==
  /\ putOk
  /\ Junk \in Range(Split(content))
  /\ Blank \in Range(Split(content))
  /\ Len(save_arg) > Cardinality(Range(save_arg))

\* the steps that send one HTTP request: get, put, login and submit
GetPcs == {"load_processed_ids", "load_post_ids", "save_processed_ids"}
RequestPcs == GetPcs \cup {"login", "process_post", "upload_file_to_github"}

\* a transport failure or an HTTP-level one
Failure(r) == IsException(r) \/ r.status >= 400

\* C15: an invocation of get, put, login or submit sends at most 3 requests:
\* it sends another one only after a transport or HTTP-level failure and only
\* twice, a failure of the third request reaches main as RetryError, and a
\* 404 answer to get ends the invocation at once with empty content and no sha.
C15_AtMostThreeRequests ==
  [][(pc \in RequestPcs) =>
      (/\ attempt <= 3
       /\ pc' = pc => (attempt' = attempt + 1 /\ attempt < 3 /\ Failure(resp'))
       /\ exc' = "RetryError" =>
            (attempt = 3 /\ Failure(resp') /\ pc' = "done" /\ exit_code' = 1)
       /\ (attempt = 3 /\ IsException(resp')) => exc' = "RetryError"
       /\ (pc \in GetPcs /\ resp' = [status |-> 404]) =>
            /\ pc' # pc
            /\ exc' = "none"
            /\ pc = "load_processed_ids" => processed_ids' = {}
            /\ pc = "load_post_ids" => all_post_ids' = <<>>
            /\ pc = "save_processed_ids" => (content' = <<>> /\ sha' = NoSha))]_vars

\* C15 witness: the third request of a get or put was refused with 429 and
\* the run has ended on RetryError
C15_Witness ==
  /\ pc = "done"
  /\ exc = "RetryError"
  /\ attempt = 3
  /\ resp = [status |-> 429]

\* the answer is a logical rejection: no HTTP error, final URL holds "Login"
Rejection(r) == ~IsException(r) /\ r.status < 400 /\ Contains(r.url, LoginWord)

\* C16: a login answered without HTTP error from a URL containing "Login"
\* returns False in that very step, sending no further request and raising
\* nothing, whereas a login request that fails at transport or HTTP level is
\* sent again while attempts are left.
C16_RejectionNotRetried ==
  [][(pc = "login") =>
      (/\ Rejection(resp') =>
            (pc' # "login" /\ last_login' = "rejected" /\ exc' = "none" /\ logins' = logins
             /\ (caller = "run" => (pc' = "done" /\ exit_code' = 1))
             /\ (caller = "process_post" =>
                   failed_ids' = Append(failed_ids, post_ids_batch[i])))
       /\ (Failure(resp') /\ attempt < 3) =>
            (pc' = "login" /\ attempt' = attempt + 1 /\ last_login' = last_login))]_vars

\* C16 witness: the first login request of the run was answered by the login
\* page with status 200 and the run has ended without a second request
C16_Witness ==
  /\ pc = "done"
  /\ Rejection(resp)
  /\ attempt = 1
  /\ last_login = "rejected"
  /\ ~authenticated /\ ~read

\* identifiers of the batch whose handling is complete
Handled == Len(successful_ids) + Len(failed_ids)

\* the first k identifiers of the batch
FirstOfBatch(k) == {post_ids_batch[j] : j \in 1..k}

\* C17: while identifier i is handled (submission, re-authentication, retry)
\* i-1 identifiers are complete and i-1 sleeps have occurred; the i-th sleep
\* starts when identifier i is complete, succeeded or failed, and before
\* identifier i+1 is submitted; a batch of n processed to its end has had
\* exactly n-1 sleeps, none after the last submission.
C17_SleepsBetweenSubmissions ==
  /\ pc \in {"process_post", "sleep"} \/ (pc = "login" /\ caller = "process_post") =>
       /\ i \in 1..Len(post_ids_batch)
       /\ sleeps = i - 1
       /\ posted \subseteq FirstOfBatch(i)
       /\ Handled = IF pc = "sleep" THEN i ELSE i - 1
       /\ pc = "sleep" => (i < Len(post_ids_batch) /\ post_ids_batch[i] \in posted)
  /\ (selected /\ post_ids_batch # <<>> /\ exc = "none"
        /\ pc \in {"save_processed_ids", "upload_file_to_github", "done"}) =>
       /\ Handled = Len(post_ids_batch)
       /\ sleeps = Len(post_ids_batch) - 1
       /\ posted = FirstOfBatch(Len(post_ids_batch))

\* C17 witness: a batch of three identifiers, one of them failed, has been
\* processed to its end with two sleeps
C17_Witness ==
  /\ pc = "done"
  /\ Len(post_ids_batch) = 3
  /\ failed_ids # <<>> /\ successful_ids # <<>>
  /\ Handled = 3
  /\ sleeps = 2

\* C18: generate_random_delays(n, 120) returns max(n - 1, 0) delays, each of
\* them between 5 and 30 inclusive, whatever the draws; none when n <= 1.
C18_DelaysClamped ==
  /\ \A k \in 1..Len(final_delays) :
       /\ final_delays[k][2] > 0
       /\ 5 * final_delays[k][2] <= final_delays[k][1]
       /\ final_delays[k][1] <= 30 * final_delays[k][2]
  /\ dpc = "returned" =>
       /\ Len(final_delays) = IF num_requests - 1 > 0 THEN num_requests - 1 ELSE 0
       /\ num_requests <= 1 => final_delays = <<>>

\* C18 witness: a call for 7 requests has returned 6 delays, one raised to 5
\* and one left as computed
C18_Witness ==
  /\ dpc = "returned"
  /\ num_requests = 7
  /\ Len(final_delays) = 6
  /\ \E k \in 1..6 : final_delays[k] = <<5, 1>>
  /\ \E k \in 1..6 : Less(<<5, 1>>, final_delays[k]) /\ Less(final_delays[k], <<30, 1>>)

\* C19: no step changes postIds.txt; processed_so_far.txt changes only by a
\* PUT of upload_file_to_github, at most once in a run; and a PUT is sent
\* only when the whole of a non-empty batch has been handled and some
\* identifier of it succeeded.
C19_OneWriteAfterBatch ==
  [][/\ postIdsFile' = postIdsFile
     /\ processedFile' # processedFile =>
          (pc = "upload_file_to_github" /\ applied = 0 /\ applied' = 1
           /\ processedFile'.content = all_processed)
     /\ applied' <= 1
     /\ puts' > puts =>
          (/\ post_ids_batch # <<>>
           /\ successful_ids # <<>>
           /\ Handled = Len(post_ids_batch)
           /\ posted = FirstOfBatch(Len(post_ids_batch))
           /\ posted' = posted)]_vars

\* C19 witness: the store applied the one write of a run that needed two PUT
\* requests, after a batch in which an identifier failed
C19_Witness ==
  /\ pc = "done"
  /\ applied = 1
  /\ puts = 2
  /\ failed_ids # <<>>

\* C20: every run that has started ends: it reaches the end of main with
\* exit code 0 or 1, whatever the endpoints answer.
C20_RunTerminates == (exit_code = -1) ~> (pc = "done" /\ exit_code \in {0, 1})

\* C20 witness: the processing endpoint answered 401 or 403 after every
\* successful re-authentication until the nested calls ran out of stack, and
\* the run has ended
C20_Witness ==
  /\ pc = "done"
  /\ exc = "RecursionError"
  /\ exit_code = 1
  /\ depth = MaxDepth
  /\ last_login = "ok"

====
